---- MODULE Spec2Model ----
(***************************************************************************)
(* Model of scripts/merge_av.py: the inbox scanner (list_files), the       *)
(* consumption ledger (safe_move), the metadata reader (load_prompts) and  *)
(* the batch loop of main(), run repeatedly over one working directory.    *)
(*                                                                         *)
(* Durations are integers in hundredths of a second (10.0 s = 1000).       *)
(* A file is a record [name, id, mtime]; id is the identity of the bytes   *)
(* (it survives a rename), name is [base, sfx, ext]: "a_1.mp4" is          *)
(* [base |-> "a", sfx |-> <<1>>, ext |-> ".mp4"].                          *)
(***************************************************************************)
EXTENDS Integers, Sequences, FiniteSets, TLC

VARIABLES
    \* ---- the filesystem (working directory) ----
    dirs,          \* the directories that exist
    video_raw,     \* files of video_raw/
    audio_raw,     \* files of audio_raw/
    video_done,    \* files of video_done/
    audio_done,    \* files of audio_done/
    final,         \* files of final/: [name, v, a, complete]
    audio_looped,  \* names of the files of audio_looped/
    promptsFile,   \* content of prompts/prompts_today.json
    today,         \* the date datetime.now() last reported
    \* ---- the merge_av process ----
    pc,            \* "idle" (no process) or the position inside main()
    args,          \* argparse result [count, seconds, xfade]
    prompts,       \* main: prompts
    videos,        \* main: videos
    audios,        \* main: audios
    n,             \* main: n
    stamp,         \* main: stamp
    i,             \* main: i
    tag,           \* main: tag of the current job
    executing,     \* external executor invocations in progress
    exit,          \* how the last process ended ("none" while one runs)
    \* ---- observation (history) ----
    pre,           \* the filesystem when the current/last run started
    trace,         \* what the current/last run did, in order
    succeeded,     \* [v, a, run] of every job that completed, over all runs
    lastMove,      \* the last safe_move: [dir, src, dst, before]
    runs,          \* number of runs started
    origin,        \* the inboxes as the first run found them
    \* ---- one clip through the two ffmpeg commands ----
    clip           \* durations: [stage, seconds, xfade, source, video, looped, out]

fs == <<dirs, video_raw, audio_raw, video_done, audio_done, final, audio_looped>>
proc == <<args, prompts, videos, audios, n, stamp, i, tag>>
vars == <<dirs, video_raw, audio_raw, video_done, audio_done, final, audio_looped,
          promptsFile, today, pc, args, prompts, videos, audios, n, stamp, i, tag,
          executing, exit, pre, trace, succeeded, lastMove, runs, origin, clip>>

----------------------------------------------------------------------------
(* Bounds of the exploration *)

MaxRuns == 2      \* runs of merge_av
MaxInbox == 2     \* videos waiting in video_raw/
MaxSfx == 2       \* a.mp4, a_1.mp4 .. a_MaxSfx.mp4 may already be archived
MaxDay == 1       \* the date of a run is in 0..MaxDay, never decreasing
MaxSrc == 4       \* source samples of 0.5 s, 1 s .. MaxSrc * 0.5 s

(* Program constants *)

DefaultCount == 3
DefaultSeconds == 1000
DefaultXfade == 35
TagLen == 20
FirstCand == 1
LoopCount == 10         \* -stream_loop 10
MergeSeconds == 1000    \* -t 10 of the merge command

----------------------------------------------------------------------------
(* Generic helpers *)

Min2(a, b) == IF a <= b THEN a ELSE b

Min3(a, b, c) == Min2(a, Min2(b, c))

Max2(a, b) == IF a >= b THEN a ELSE b

Front(s) == SubSeq(s, 1, Len(s) - 1)

Range(s) == {s[k] : k \in DOMAIN s}

\* every order in which a directory may enumerate the entries S
Enumerations(S) ==
    {s \in [1..Cardinality(S) -> S] : \A j, k \in DOMAIN s : j # k => s[j] # s[k]}

Names(dir) == {f.name : f \in dir}

Ids(dir) == {f.id : f \in dir}

MkName(b, s, e) == [base |-> b, sfx |-> s, ext |-> e]

----------------------------------------------------------------------------
(* list_files *)

VIDEO_EXTS == {".mp4", ".mov", ".m4v"}

AUDIO_EXTS == {".wav", ".mp3", ".m4a"}

\* p.suffix.lower()
Lower(e) ==
    CASE e = ".MP4" -> ".mp4"
      [] e = ".WAV" -> ".wav"
      [] OTHER -> e

\* the position after the last element of the sorted t whose key is <= x's
InsertPos(x, t) == Cardinality({k \in DOMAIN t : t[k].mtime <= x.mtime})

\* no sort: the files in the order the directory enumerates them
Unsorted(s) == s

\* list.sort(key=st_mtime): a stable sort, equal keys keep their input order
RECURSIVE SortByMtime(_)
SortByMtime(s) ==
    IF s = <<>> THEN <<>>
    ELSE LET t == SortByMtime(Front(s))
             x == s[Len(s)]
             k == InsertPos(x, t)
         IN  SubSeq(t, 1, k) \o <<x>> \o SubSeq(t, k + 1, Len(t))

\* order: the order folder.iterdir() yields the entries in
list_files(order, exts) ==
    SortByMtime(SelectSeq(order, LAMBDA p : Lower(p.name.ext) \in exts))

----------------------------------------------------------------------------
(* safe_move *)

Cand(name, k) == [name EXCEPT !.sfx = Append(@, k)]

\* the while True loop of safe_move, from i = k
RECURSIVE FreeCand(_, _, _)
FreeCand(name, taken, k) ==
    IF Cand(name, k) \notin taken THEN Cand(name, k)
    ELSE FreeCand(name, taken, k + 1)

\* a plain move to dst_dir / src.name
MoveOver(name, taken) == name

\* the name safe_move gives src in a directory holding the names taken
safe_move_dst(name, taken) ==
    IF name \in taken THEN FreeCand(name, taken, FirstCand) ELSE name

----------------------------------------------------------------------------
(* load_prompts and the tag of a job *)

\* JSON values of the metadata file
Str(s) == [k |-> "str", s |-> s]
IntV(v) == [k |-> "int", s |-> <<v>>]
Null == [k |-> "null", s |-> <<>>]
Absent == [k |-> "absent", s |-> <<>>]
Obj(th, st) == [k |-> "obj", theme |-> th, style |-> st]
NonObj == [k |-> "nonobj", theme |-> Absent, style |-> Absent]

FileMissing == [k |-> "missing", items |-> <<>>]
FileBad == [k |-> "unparseable", items |-> <<>>]
FileScalar == [k |-> "scalar", items |-> <<>>]
FileList(recs) == [k |-> "list", items |-> recs]
FileDictItems(recs) == [k |-> "dict_items", items |-> recs]
FileDictOther == [k |-> "dict_other", items |-> <<>>]

load_prompts(file) ==
    CASE file.k = "missing" -> <<>>
      [] file.k = "unparseable" -> <<>>
      [] file.k = "list" -> file.items
      [] file.k = "dict_items" -> file.items
      [] OTHER -> <<>>

AlnumChars == {"a", "b", "1", "2"}

KeepChar(ch) == ch \in AlnumChars \/ ch \in {"-", "_"}

Take(s, k) == SubSeq(s, 1, Min2(k, Len(s)))

\* "".join(ch for ch in theme if ch.isalnum() or ch in ("-", "_"))[:20]
Sanitize(s) == Take(SelectSeq(s, KeepChar), TagLen)

\* Python truthiness of a JSON value
Truthy(v) ==
    CASE v.k = "str" -> v.s # <<>>
      [] v.k = "int" -> v.s # <<0>>
      [] OTHER -> FALSE

\* prompts[i].get("theme") or prompts[i].get("style") or ""
ThemeOf(rec) ==
    IF Truthy(rec.theme) THEN rec.theme
    ELSE IF Truthy(rec.style) THEN rec.style
    ELSE Str(<<>>)

\* lines 146-152: [err, tag]; err is the exception raised, "" when none
TagOf(ps, idx0) ==
    IF idx0 < Len(ps)
    THEN LET rec == ps[idx0 + 1] IN
         IF rec.k # "obj" THEN [err |-> "AttributeError", tag |-> <<>>]
         ELSE IF ThemeOf(rec).k # "str" THEN [err |-> "TypeError", tag |-> <<>>]
         ELSE [err |-> "", tag |-> Sanitize(ThemeOf(rec).s)]
    ELSE [err |-> "", tag |-> <<>>]

----------------------------------------------------------------------------
(* The working directories the runs start from *)

AllDirs == {"video_raw", "audio_raw", "video_done", "audio_done", "final", "audio_looped"}

MTimes == {1, 2}

File(nm, id, mt) == [name |-> nm, id |-> id, mtime |-> mt]

\* the k-th video and the k-th audio dropped into the inboxes
VideoName(k) ==
    CASE k = 1 -> MkName("a", <<>>, ".mp4")
      [] k = 2 -> MkName("b", <<>>, ".MP4")
      [] OTHER -> MkName("c", <<k>>, ".mov")

AudioName(k) ==
    CASE k = 1 -> MkName("x", <<>>, ".wav")
      [] k = 2 -> MkName("y", <<>>, ".WAV")
      [] OTHER -> MkName("z", <<k>>, ".mp3")

NotesTxt == File(MkName("notes", <<>>, ".txt"), 40, 1)

\* inboxes of 0..MaxInbox files, every assignment of modification times
VideoInboxes ==
    UNION {{{File(VideoName(k), k, mt[k]) : k \in 1..sz} : mt \in [1..sz -> MTimes]}
           : sz \in 0..MaxInbox}

\* audio inboxes: none, x alone, x older than y, x and y of the same age
AudioInboxes ==
    { {}, {File(AudioName(1), 11, 1)},
      {File(AudioName(1), 11, 1), File(AudioName(2), 12, 2)},
      {File(AudioName(1), 11, 1), File(AudioName(2), 12, 1)} }

\* a_1.mp4, a_2.mp4, ... left in done-storage by earlier runs
Archived(b, e, S) ==
    {File(MkName(b, IF k = 0 THEN <<>> ELSE <<k>>, e), 20 + k, 1) : k \in S}

Letters(k) == [j \in 1..k |-> "a"]

PromptFiles ==
    { FileMissing, FileBad, FileScalar, FileDictOther,
      FileList(<<>>),
      FileList(<<Obj(Str(<<"a", " ", "-", "!", "1">>), Absent)>>),
      FileList(<<Obj(Null, Str(<<"b", "_">>)), Obj(Str(<<"!">>), Str(<<"a">>))>>),
      FileList(<<Obj(Str(Letters(TagLen + 1)), Absent), Obj(IntV(0), Null)>>),
      FileDictItems(<<Obj(Str(<<>>), Str(<<"2">>))>>),
      FileList(<<NonObj>>),
      FileList(<<Obj(Str(<<"a">>), Absent), Obj(IntV(5), Absent)>>) }

DirsOf(vr, ar, vd, ad) ==
    {d \in AllDirs : \/ d = "video_raw" /\ vr # {}
                     \/ d = "audio_raw" /\ ar # {}
                     \/ d = "video_done" /\ vd # {}
                     \/ d = "audio_done" /\ ad # {}}

NoArgs == [count |-> 0, seconds |-> 0, xfade |-> 0]

NoMove == [dir |-> "", src |-> MkName("", <<>>, ""), dst |-> MkName("", <<>>, ""),
           before |-> {}]

Snapshot ==
    [dirs |-> dirs, video_raw |-> video_raw, audio_raw |-> audio_raw,
     video_done |-> video_done, audio_done |-> audio_done,
     final |-> final, audio_looped |-> audio_looped]

\* no clip is followed
NoClip ==
    [stage |-> "none", seconds |-> 0, xfade |-> 0, source |-> 0, video |-> 0,
     looped |-> 0, out |-> 0]

NoProcess ==
    /\ pc = "idle"
    /\ args = NoArgs
    /\ prompts = <<>>
    /\ videos = <<>>
    /\ audios = <<>>
    /\ n = 0
    /\ stamp = 0
    /\ i = 0
    /\ tag = <<>>
    /\ executing = {}
    /\ exit = "none"
    /\ trace = <<>>
    /\ lastMove = NoMove

TwoVideos == {File(VideoName(k), k, k) : k \in 1..2}

TwoAudios == {File(AudioName(k), 10 + k, k) : k \in 1..2}

\* any number, order and age of the raw files, nothing archived yet
InitInboxes ==
    /\ \/ video_raw \in VideoInboxes \cup {{NotesTxt}} /\ audio_raw = TwoAudios
       \/ video_raw = TwoVideos /\ audio_raw \in AudioInboxes
    /\ video_done = {}
    /\ audio_done = {}
    /\ promptsFile = FileMissing

\* one pair to archive into a done-storage that earlier runs have filled
InitArchive ==
    /\ \E src \in {MkName("a", <<>>, ".mp4"), MkName("a", <<1>>, ".mp4")} :
           video_raw = {File(src, 1, 1)}
    /\ audio_raw = {File(AudioName(1), 11, 1)}
    /\ video_done \in {Archived("a", ".mp4", S) : S \in SUBSET (0..MaxSfx)}
    /\ audio_done \in {Archived("x", ".wav", S) : S \in {{}, {0}}}
    /\ promptsFile = FileMissing

\* two pairs and every shape of the metadata file
InitPrompts ==
    /\ video_raw = TwoVideos \cup {NotesTxt}
    /\ audio_raw = TwoAudios
    /\ video_done = {}
    /\ audio_done = {}
    /\ promptsFile \in PromptFiles

Init ==
    /\ InitInboxes \/ InitArchive \/ InitPrompts
    /\ dirs = DirsOf(video_raw, audio_raw, video_done, audio_done)
    /\ final = {}
    /\ audio_looped = {}
    /\ today = 0
    /\ NoProcess
    /\ pre = Snapshot
    /\ succeeded = {}
    /\ runs = 0
    /\ origin = [video_raw |-> video_raw, audio_raw |-> audio_raw]
    /\ clip = NoClip

----------------------------------------------------------------------------
(* The run: main() *)

\* command lines tried: --count, and (--seconds, --xfade) in 1/100 s:
\* the defaults, F = T, F = 0, F < 0, F > T
Counts == {0, 1, 2, DefaultCount}

Durations ==
    { <<DefaultSeconds, DefaultXfade>>, <<DefaultSeconds, DefaultSeconds>>,
      <<DefaultSeconds, 0>>, <<DefaultSeconds, 0 - DefaultXfade>>,
      <<DefaultXfade, DefaultSeconds>> }

Ev(op, rc) ==
    [op |-> op, job |-> i,
     v |-> IF i < Len(videos) THEN videos[i + 1].id ELSE 0,
     a |-> IF i < Len(audios) THEN audios[i + 1].id ELSE 0,
     rc |-> rc]

\* writing path nm of directory dir (ffmpeg -y replaces what is there)
Put(dir, f) == {g \in dir : g.name # f.name} \cup {f}

LoopedName == [stamp |-> stamp, idx |-> i + 1]

OutName == [stamp |-> stamp, idx |-> i + 1, tag |-> tag]

\* every end of the process is reported as a success
TerminatesOk(how) ==
    /\ pc' = "exited"
    /\ exit' = "ok"

\* the process ends: an uncaught exception, SystemExit, or the end of main
Terminates(how) ==
    /\ pc' = "exited"
    /\ exit' = how

\* what list_files may return for a directory: one result per enumeration order
Scans(dir, exts) == {list_files(order, exts) : order \in Enumerations(dir)}

\* --count is not taken into the minimum
BatchSizeNoCount(c, vs, as) == Min2(Len(vs), Len(as))

\* line 134
BatchSize(c, vs, as) == Min3(c, Len(vs), Len(as))

\* lines 115-138: parse the arguments, create the directories, read the
\* metadata, scan both inboxes, decide the batch size
StartRun ==
    /\ pc = "idle"
    /\ runs < MaxRuns
    /\ runs' = runs + 1
    /\ \E c \in Counts, d \in Durations,
          vs \in Scans(video_raw, VIDEO_EXTS), as \in Scans(audio_raw, AUDIO_EXTS),
          day \in today..MaxDay :
          LET m == BatchSize(c, vs, as)
          IN  /\ today' = day
              /\ stamp' = day
              /\ args' = [count |-> c, seconds |-> d[1], xfade |-> d[2]]
              /\ videos' = vs
              /\ audios' = as
              /\ IF vs = <<>> \/ as = <<>> \/ m <= 0
                 THEN /\ Terminates("SystemExit")
                      /\ n' = 0
                 ELSE /\ pc' = "job"
                      /\ exit' = "none"
                      /\ n' = m
    /\ dirs' = dirs \cup {"final", "audio_looped", "video_raw", "audio_raw"}
    /\ prompts' = load_prompts(promptsFile)
    /\ i' = 0
    /\ tag' = <<>>
    /\ pre' = Snapshot
    /\ trace' = <<>>
    /\ lastMove' = NoMove
    /\ UNCHANGED <<video_raw, audio_raw, video_done, audio_done, final, audio_looped,
                   promptsFile, executing, succeeded, origin, clip>>

\* loop_audio_to_10s, lines 56-59
BadDurations(T, F) == F <= 0 \/ F >= T

\* lines 141-158 up to subprocess.run: name the outputs, validate, launch
BeginJob ==
    /\ pc = "job"
    /\ LET t == TagOf(prompts, i) IN
       IF t.err # ""
       THEN /\ Terminates(t.err)
            /\ trace' = Append(trace, Ev("job", 1))
            /\ UNCHANGED <<tag, executing>>
       ELSE /\ tag' = t.tag
            /\ IF BadDurations(args.seconds, args.xfade)
               THEN /\ Terminates("ValueError")
                    /\ trace' = Append(trace, Ev("job", 1))
                    /\ UNCHANGED executing
               ELSE /\ pc' = "looping"
                    /\ executing' = executing \cup {"loop"}
                    /\ trace' = trace \o <<Ev("job", 0), Ev("loop", 0)>>
                    /\ UNCHANGED exit
    /\ UNCHANGED <<fs, promptsFile, today, args, prompts, videos, audios, n, stamp, i,
                   pre, succeeded, lastMove, runs, origin, clip>>

\* the return code is ignored
RaisesNever(rc) == FALSE

\* run(), lines 24-25: a non-zero return code raises RuntimeError
Raises(rc) == rc # 0

\* the failed job is skipped and the batch goes on with the next pair
SkipAndContinue(how) ==
    IF i + 1 < n
    THEN /\ pc' = "job"
         /\ i' = i + 1
         /\ UNCHANGED exit
    ELSE /\ Terminates("ok")
         /\ UNCHANGED i

\* the exception leaves main(): nothing catches it
Abort(how) ==
    /\ Terminates(how)
    /\ UNCHANGED i

\* a copy instead of a move: the source stays in the inbox
RemovedNot(src, dir) == dir

\* shutil.move, the source side: src is gone from its directory
Removed(src, dir) == dir \ {src}

\* what a failed ffmpeg may leave at its output path
Leftovers == {"untouched", "partial"}

\* run() returns from the loop command; on success merge_video_audio launches
LoopExit ==
    /\ pc = "looping"
    /\ \E rc \in {0, 1}, left \in Leftovers :
          /\ trace' = IF Raises(rc)
                      THEN Append(trace, Ev("loop_exit", rc))
                      ELSE trace \o <<Ev("loop_exit", rc), Ev("merge", 0)>>
          /\ IF ~Raises(rc)
             THEN /\ left = "untouched"
                  /\ audio_looped' = audio_looped \cup {LoopedName}
                  /\ executing' = (executing \ {"loop"}) \cup {"merge"}
                  /\ pc' = "merging"
                  /\ UNCHANGED <<exit, i>>
             ELSE /\ audio_looped' =
                         IF left = "partial" THEN audio_looped \cup {LoopedName}
                         ELSE audio_looped
                  /\ executing' = executing \ {"loop"}
                  /\ Abort("RuntimeError")
    /\ UNCHANGED <<dirs, video_raw, audio_raw, video_done, audio_done, final,
                   promptsFile, today, args, prompts, videos, audios, n, stamp, tag,
                   pre, succeeded, lastMove, runs, origin, clip>>

\* run() returns from the merge command
MergeExit ==
    /\ pc = "merging"
    /\ \E rc \in {0, 1}, left \in Leftovers :
          /\ trace' = Append(trace, Ev("merge_exit", rc))
          /\ executing' = executing \ {"merge"}
          /\ IF ~Raises(rc)
             THEN /\ left = "untouched"
                  /\ final' = Put(final,
                         [name |-> OutName, v |-> videos[i + 1].id,
                          a |-> audios[i + 1].id, complete |-> TRUE])
                  /\ pc' = "archive_video"
                  /\ UNCHANGED <<exit, i>>
             ELSE /\ final' =
                         IF left = "partial"
                         THEN Put(final,
                                  [name |-> OutName, v |-> videos[i + 1].id,
                                   a |-> audios[i + 1].id, complete |-> FALSE])
                         ELSE final
                  /\ Abort("RuntimeError")
    /\ UNCHANGED <<dirs, video_raw, audio_raw, video_done, audio_done, audio_looped,
                   promptsFile, today, args, prompts, videos, audios, n, stamp, tag,
                   pre, succeeded, lastMove, runs, origin, clip>>

\* the source never arrives: dst is as before
MovedNowhere(src, dst) == dst

\* safe_move: the directory dst after src arrived in it
Moved(src, dst) == Put(dst, [src EXCEPT !.name = safe_move_dst(src.name, Names(dst))])

MoveRecord(d, src, dst) ==
    [dir |-> d, src |-> src.name, dst |-> safe_move_dst(src.name, Names(dst)),
     before |-> dst]

\* line 164: safe_move(v, VIDEO_DONE); shutil.move may raise
ArchiveVideo ==
    /\ pc = "archive_video"
    /\ dirs' = dirs \cup {"video_done"}
    /\ \E ok \in BOOLEAN :
          IF ok
          THEN /\ video_raw' = Removed(videos[i + 1], video_raw)
               /\ video_done' = Moved(videos[i + 1], video_done)
               /\ lastMove' = MoveRecord("video_done", videos[i + 1], video_done)
               /\ trace' = Append(trace, Ev("mv_video", 0))
               /\ pc' = "archive_audio"
               /\ UNCHANGED exit
          ELSE /\ trace' = Append(trace, Ev("mv_video", 1))
               /\ Terminates("OSError")
               /\ UNCHANGED <<video_raw, video_done, lastMove>>
    /\ UNCHANGED <<audio_raw, audio_done, final, audio_looped, promptsFile, today,
                   proc, executing, pre, succeeded, runs, origin, clip>>

\* lines 165-169: safe_move(a, AUDIO_DONE), then the next pair or the end
ArchiveAudio ==
    /\ pc = "archive_audio"
    /\ dirs' = dirs \cup {"audio_done"}
    /\ \E ok \in BOOLEAN :
          IF ok
          THEN /\ audio_raw' = Removed(audios[i + 1], audio_raw)
               /\ audio_done' = Moved(audios[i + 1], audio_done)
               /\ lastMove' = MoveRecord("audio_done", audios[i + 1], audio_done)
               /\ trace' = Append(trace, Ev("mv_audio", 0))
               /\ succeeded' = succeeded \cup
                      {[v |-> videos[i + 1].id, a |-> audios[i + 1].id, run |-> runs]}
               /\ IF i + 1 < n
                  THEN /\ i' = i + 1
                       /\ pc' = "job"
                       /\ UNCHANGED exit
                  ELSE /\ Terminates("ok")
                       /\ UNCHANGED i
          ELSE /\ trace' = Append(trace, Ev("mv_audio", 1))
               /\ Terminates("OSError")
               /\ UNCHANGED <<audio_raw, audio_done, lastMove, succeeded, i>>
    /\ UNCHANGED <<video_raw, video_done, final, audio_looped, promptsFile, today,
                   args, prompts, videos, audios, n, stamp, tag, executing, pre, runs,
                   origin, clip>>

\* the process is gone: its variables with it
Reap ==
    /\ pc = "exited"
    /\ pc' = "idle"
    /\ args' = NoArgs
    /\ prompts' = <<>>
    /\ videos' = <<>>
    /\ audios' = <<>>
    /\ n' = 0
    /\ stamp' = 0
    /\ i' = 0
    /\ tag' = <<>>
    /\ exit' = "none"
    /\ trace' = <<>>
    /\ lastMove' = NoMove
    /\ pre' = Snapshot
    /\ UNCHANGED <<fs, promptsFile, today, executing, succeeded, runs, origin, clip>>

Next ==
    \/ StartRun
    \/ BeginJob
    \/ LoopExit
    \/ MergeExit
    \/ ArchiveVideo
    \/ ArchiveAudio
    \/ Reap

Spec == Init /\ [][Next]_vars

----------------------------------------------------------------------------
(* The two ffmpeg commands, by the durations of their streams (1/100 s) *)

\* -stream_loop 10 -i in_audio: the source, then LoopCount repetitions of it
Repeated(len) == (LoopCount + 1) * len

\* atrim=from:to on a stream of length len
Atrim(len, from, to) == Max2(0, Min2(len, to) - Min2(len, from))

\* acrossfade=d: the end of a overlaps the start of b over d, or over what
\* the shorter of the two offers
Acrossfade(a, b, d) == a + b - Min3(d, a, b)

\* concat=n=2
Concat(a, b) == a + b

\* lines 61-79: the duration of out_audio for a source of length len
loop_audio_to_10s(len, T, F) ==
    LET all == Repeated(len)
        mid == Atrim(all, 0, T - F)
        tail == Atrim(all, T - F, T)
        head == Atrim(all, 0, F)
        xf == Acrossfade(tail, head, F)
    IN  Min2(T, Concat(mid, xf))

\* lines 84-97: -t 10 and -shortest over the video and the looped audio
merge_video_audio(video, audio) == Min3(MergeSeconds, video, audio)

\* the clips followed: source samples and videos of several lengths, and
\* --seconds, --xfade below, at and above the defaults
SourceLens == {k * (DefaultSeconds \div 20) : k \in 1..MaxSrc} \cup {3 * DefaultSeconds}

VideoLens == {DefaultSeconds \div 2, DefaultSeconds, 3 * DefaultSeconds}

Targets == {DefaultSeconds \div 2, DefaultSeconds, 2 * DefaultSeconds}

Fades == {DefaultXfade, DefaultSeconds}

Clips ==
    {[NoClip EXCEPT !.stage = "source", !.seconds = T, !.xfade = F,
                    !.source = len, !.video = vid] :
        T \in Targets, F \in Fades, len \in SourceLens, vid \in VideoLens}

\* everything but the clip
pipeline ==
    <<fs, promptsFile, today, pc, proc, executing, exit, pre, trace, succeeded,
      lastMove, runs, origin>>

\* one job's pair in an otherwise empty working directory
ClipInit ==
    /\ clip \in Clips
    /\ dirs = {}
    /\ video_raw = {}
    /\ audio_raw = {}
    /\ video_done = {}
    /\ audio_done = {}
    /\ final = {}
    /\ audio_looped = {}
    /\ promptsFile = FileMissing
    /\ today = 0
    /\ NoProcess
    /\ pre = Snapshot
    /\ succeeded = {}
    /\ runs = 0
    /\ origin = [video_raw |-> {}, audio_raw |-> {}]

\* line 158: loop_audio_to_10s(a, looped, seconds, xfade), ffmpeg exiting zero
LoopClip ==
    /\ clip.stage = "source"
    /\ clip' = IF BadDurations(clip.seconds, clip.xfade)
               THEN [clip EXCEPT !.stage = "ValueError"]
               ELSE [clip EXCEPT !.stage = "looped",
                                 !.looped = loop_audio_to_10s(clip.source, clip.seconds,
                                                              clip.xfade)]
    /\ UNCHANGED pipeline

\* line 161: merge_video_audio(v, looped, out), ffmpeg exiting zero
MergeClip ==
    /\ clip.stage = "looped"
    /\ clip' = [clip EXCEPT !.stage = "merged",
                            !.out = merge_video_audio(clip.video, clip.looped)]
    /\ UNCHANGED pipeline

ClipNext ==
    \/ LoopClip
    \/ MergeClip

ClipSpec == ClipInit /\ [][ClipNext]_vars

----------------------------------------------------------------------------
(* Properties *)

Running == pc \notin {"idle", "exited"}

\* the pairs the current run selected: positions 1..n of the two scans
BatchVideoIds == {videos[k].id : k \in 1..n}

BatchAudioIds == {audios[k].id : k \in 1..n}

\* positions of the trace where the external executor exited non-zero
FailedAt ==
    {p \in DOMAIN trace : trace[p].op \in {"loop_exit", "merge_exit"} /\ trace[p].rc # 0}

\* C1: at-most-once consumption. The video and the audio of every job that
\* completed (loop, merge and both moves) are out of the inboxes and in
\* done-storage, and no later run has either of them in its batch.
C1_AtMostOnce ==
    \A j \in succeeded :
        /\ j.v \notin Ids(video_raw)
        /\ j.a \notin Ids(audio_raw)
        /\ j.v \in Ids(video_done)
        /\ j.a \in Ids(audio_done)
        /\ j.run < runs => j.v \notin BatchVideoIds /\ j.a \notin BatchAudioIds

\* a later run is at work on a pair while an earlier run's job is archived
C1_Witness ==
    /\ pc = "looping"
    /\ \E j \in succeeded : j.run < runs

\* C2: when the executor exits non-zero for a job, in the loop step or in the
\* merge step, the run ends with that job's video and audio, and those of
\* every later pair of the batch, still in their inboxes and not archived.
C2_FailedJobStaysInInbox ==
    pc = "exited" =>
        \A p \in FailedAt : \A k \in (trace[p].job + 1)..n :
            /\ videos[k] \in video_raw
            /\ audios[k] \in audio_raw
            /\ videos[k].id \notin Ids(video_done)
            /\ audios[k].id \notin Ids(audio_done)

\* the merge of the first of two pairs failed and the run has ended
C2_Witness ==
    /\ pc = "exited"
    /\ n = 2
    /\ \E p \in FailedAt : trace[p].op = "merge_exit" /\ trace[p].job = 0

\* the files of an inbox that list_files matches
Matching(dir, exts) == {f \in dir : Lower(f.name.ext) \in exts}

\* positions of the trace where a job was begun (an iteration of line 140)
JobsBegun == {p \in DOMAIN trace : trace[p].op = "job"}

\* min(count, videos in video_raw/, audios in audio_raw/) when the run started
Available ==
    Min3(args.count, Cardinality(Matching(pre.video_raw, VIDEO_EXTS)),
         Cardinality(Matching(pre.audio_raw, AUDIO_EXTS)))

\* C3: with F <= 0 or F >= T the run fails with the configuration error
\* before any side effect: no executor invocation, and the directories and
\* files are exactly as before the run, whatever the inboxes hold.
C3_BadDurationsNoSideEffect ==
    pc = "exited" /\ BadDurations(args.seconds, args.xfade) =>
        /\ exit = "ValueError"
        /\ \A p \in DOMAIN trace : trace[p].op \notin {"loop", "merge"}
        /\ Snapshot = pre

\* C4 as stated: a run attempts exactly min(count, videos, audios) jobs, and
\* none, with a non-zero exit, when that minimum is <= 0 (runs that the
\* arguments or the metadata file stop are left aside here).
C4_ExactlyMin ==
    pc = "exited" /\ exit \notin {"ValueError", "AttributeError", "TypeError"} =>
        IF Available <= 0
        THEN Cardinality(JobsBegun) = 0 /\ exit # "ok"
        ELSE Cardinality(JobsBegun) = Available

\* C4 amended: a run attempts at most min(count, videos, audios) jobs and
\* never indexes past the end of either list; it attempts exactly that many
\* when it ends with exit 0, and none, with a non-zero exit, when the minimum
\* is <= 0.
C4_AtMostMin ==
    /\ pc # "idle" => Cardinality(JobsBegun) <= (IF Available <= 0 THEN 0 ELSE Available)
    /\ Running => i + 1 <= Len(videos) /\ i + 1 <= Len(audios) /\ i + 1 <= args.count
    /\ pc = "exited" /\ exit = "ok" => Cardinality(JobsBegun) = Available
    /\ pc = "exited" /\ Available <= 0 => Cardinality(JobsBegun) = 0 /\ exit = "SystemExit"

\* a run that asked for more pairs than one inbox held ended with exit 0
C4_Witness ==
    /\ pc = "exited"
    /\ exit = "ok"
    /\ Len(videos) # Len(audios)
    /\ args.count > Cardinality(JobsBegun)
    /\ Cardinality(JobsBegun) >= 1

\* f is a k-th oldest file of S (equal modification times share their ranks)
KthOldest(f, k, S) ==
    /\ f \in S
    /\ Cardinality({g \in S : g.mtime < f.mtime}) < k
    /\ Cardinality({g \in S : g.mtime <= f.mtime}) >= k

FileOfId(S, id) == CHOOSE f \in S : f.id = id

\* C5: job i pairs the i-th oldest video with the i-th oldest audio of the
\* scan, jobs are begun in increasing i, one executor invocation at most is in
\* progress, and a job begins only after the one before archived both inputs.
C5_OrderedPairing ==
    /\ Cardinality(executing) <= 1
    /\ \A p \in JobsBegun :
          LET e == trace[p]
              V == Matching(pre.video_raw, VIDEO_EXTS)
              A == Matching(pre.audio_raw, AUDIO_EXTS)
          IN  /\ e.v \in Ids(V) /\ KthOldest(FileOfId(V, e.v), e.job + 1, V)
              /\ e.a \in Ids(A) /\ KthOldest(FileOfId(A, e.a), e.job + 1, A)
              /\ e.job = Cardinality({q \in JobsBegun : q < p})
              /\ e.job > 0 =>
                    \E q, r \in 1..(p - 1) :
                        /\ q < r
                        /\ trace[q].op = "mv_video" /\ trace[q].rc = 0
                        /\ trace[q].job = e.job - 1
                        /\ trace[r].op = "mv_audio" /\ trace[r].rc = 0
                        /\ trace[r].job = e.job - 1

\* a.mp4 older than b.MP4, x.wav older than y.WAV: (a, x) ran, then (b, y)
C5_Witness ==
    /\ pc = "exited"
    /\ exit = "ok"
    /\ args.count = 2
    /\ pre.video_raw = TwoVideos
    /\ pre.audio_raw = TwoAudios
    /\ \E p, q \in JobsBegun :
          /\ p < q
          /\ trace[p].v = 1 /\ trace[p].a = 11
          /\ trace[q].v = 2 /\ trace[q].a = 12

\* the order of file names: "a.mp4" < "a_1.mp4" < "a_1_1.mp4" < "a_2.mp4" < "b.mp4"
RECURSIVE SfxLess(_, _)
SfxLess(s, t) ==
    IF s = <<>> THEN t # <<>>
    ELSE IF t = <<>> THEN FALSE
    ELSE IF s[1] # t[1] THEN s[1] < t[1]
    ELSE SfxLess(Tail(s), Tail(t))

BaseRank(b) ==
    CASE b = "a" -> 1 [] b = "b" -> 2 [] b = "c" -> 3 [] b = "notes" -> 4
      [] b = "x" -> 5 [] b = "y" -> 6 [] OTHER -> 7

NameLess(x, y) ==
    \/ BaseRank(x.base) < BaseRank(y.base)
    \/ x.base = y.base /\ SfxLess(x.sfx, y.sfx)

ByTimeThenName(s) ==
    \A k \in 1..(Len(s) - 1) :
        \/ s[k].mtime < s[k + 1].mtime
        \/ s[k].mtime = s[k + 1].mtime /\ NameLess(s[k].name, s[k + 1].name)

\* C6: list_files returns the files by modification time with ties broken by
\* name, so that scanning again, with the directory as it was, returns the
\* same sequence whatever the enumeration order.
C6_TiesBrokenByName ==
    pc # "idle" =>
        /\ ByTimeThenName(videos)
        /\ ByTimeThenName(audios)
        /\ video_raw = pre.video_raw => Scans(video_raw, VIDEO_EXTS) = {videos}
        /\ audio_raw = pre.audio_raw => Scans(audio_raw, AUDIO_EXTS) = {audios}

\* C7: safe_move never overwrites. The name it moves to was free before the
\* call: the source's name if that was free, otherwise stem_k for the least
\* k >= 1 that was free, found within as many steps as the directory has
\* files; what the directory held before is still there, unchanged.
C7_SafeMoveNeverOverwrites ==
    lastMove.dir # "" =>
        LET taken == Names(lastMove.before)
            now == IF lastMove.dir = "video_done" THEN video_done ELSE audio_done
        IN  /\ lastMove.dst \notin taken
            /\ lastMove.src \notin taken => lastMove.dst = lastMove.src
            /\ lastMove.src \in taken =>
                  \E k \in FirstCand..Cardinality(taken) :
                      /\ lastMove.dst = Cand(lastMove.src, k)
                      /\ \A j \in FirstCand..(k - 1) : Cand(lastMove.src, j) \in taken
            /\ lastMove.before \subseteq now
            /\ lastMove.dst \in Names(now)

\* a.mp4 arrived in a video_done/ that held a.mp4 and a_1.mp4: it is a_2.mp4
C7_Witness ==
    /\ lastMove.dir = "video_done"
    /\ lastMove.dst = Cand(lastMove.src, 2)
    /\ Cardinality(video_done) = 3

\* the metadata file offers no record with a string for job i
NoTagFor(k) ==
    \/ promptsFile.k \in {"missing", "unparseable", "scalar", "dict_other"}
    \/ promptsFile.k = "list" /\
          \/ k >= Len(promptsFile.items)
          \/ promptsFile.items[k + 1].k # "obj"
          \/ ThemeOf(promptsFile.items[k + 1]).k # "str"

\* C8: the metadata file never aborts a batch; when it is missing, malformed,
\* of another shape or too short, the job runs and its output has no tag.
C8_MetadataNeverAborts ==
    /\ exit \notin {"AttributeError", "TypeError"}
    /\ pc \in {"looping", "merging", "archive_video", "archive_audio"} /\ NoTagFor(i)
          => tag = <<>>

\* C9: after a run every file of final/ is the complete output of a merge
\* that exited zero; a failed merge leaves nothing new, truncated or replaced.
C9_FinalOnlyComplete ==
    pc = "exited" => \A f \in final : f.complete

\* C10: abort on first error. A non-zero executor exit is the last thing the
\* run does: no further invocation, no archive move, no next job, and the
\* process ends with a non-zero exit.
C10_AbortOnFirstError ==
    \A p \in FailedAt :
        /\ p = Len(trace)
        /\ pc = "exited"
        /\ exit \notin {"ok", "none"}
        /\ executing = {}

\* the loop step of the first of two pairs failed
C10_Witness ==
    /\ n = 2
    /\ \E p \in FailedAt : trace[p].op = "loop_exit" /\ trace[p].job = 0

\* C11: loop duration exactness. For every source of positive length and
\* every (T, F) with 0 < F < T, the repeated source is at least T long and
\* the loop built from it lasts exactly T.
C11_LoopDurationExact ==
    clip.stage \in {"looped", "merged"} =>
        /\ Repeated(clip.source) >= clip.seconds
        /\ clip.looped = clip.seconds

\* C12: the finished artifact is trimmed to T = --seconds: it lasts
\* min(T, video, looped audio), hence never more than T, whatever T is.
C12_TrimmedToT ==
    clip.stage = "merged" =>
        /\ clip.out = Min3(clip.seconds, clip.video, clip.looped)
        /\ clip.out <= clip.seconds

\* positions of the trace where a safe_move was called
MovesAt(op) == {p \in DOMAIN trace : trace[p].op = op}

\* C13: archiving is the last step of a job and follows success only. The
\* move of a job's video comes after a zero exit of that job's loop command
\* and then of its merge command; the move of the audio comes right after
\* the successful move of the video and nothing of the job follows it; when
\* the audio move fails the run ends there, with an error, and the job is
\* not counted as done.
C13_ArchiveLastAfterSuccess ==
    /\ \A p \in MovesAt("mv_video") :
          \E q, r \in 1..(p - 1) :
              /\ q < r
              /\ trace[q].op = "loop_exit" /\ trace[q].rc = 0
              /\ trace[q].job = trace[p].job
              /\ trace[r].op = "merge_exit" /\ trace[r].rc = 0
              /\ trace[r].job = trace[p].job
    /\ \A p \in MovesAt("mv_audio") :
          /\ p > 1
          /\ trace[p - 1].op = "mv_video" /\ trace[p - 1].rc = 0
          /\ trace[p - 1].job = trace[p].job
          /\ \A q \in (p + 1)..Len(trace) : trace[q].job # trace[p].job
          /\ trace[p].rc # 0 =>
                /\ p = Len(trace)
                /\ pc = "exited"
                /\ exit \notin {"ok", "none"}
                /\ [v |-> trace[p].v, a |-> trace[p].a, run |-> runs] \notin succeeded

\* the video of the first pair is archived and the move of its audio failed
C13_Witness ==
    /\ pc = "exited"
    /\ \E p \in MovesAt("mv_audio") : trace[p].rc # 0 /\ trace[p].job = 0
    /\ videos[1] \notin video_raw
    /\ audios[1] \in audio_raw

\* the assets that left inbox (a field of the snapshots) since the run started
Left(inbox, now) == Ids(inbox) \ Ids(now)

\* the assets the run's successful moves op carried, by the field fld of the events
Carried(op, fld) == {trace[p][fld] : p \in {q \in MovesAt(op) : trace[q].rc = 0}}

C15_FinalNeverOverwritten ==
    /\ \A j \in succeeded : \E f \in final : f.v = j.v /\ f.a = j.a /\ f.complete
    /\ Cardinality(final) >= Cardinality(succeeded)

\* the video and the audio of ids v and a have a common rank, oldest first,
\* among the files the inboxes held at first
SameRank(v, a) ==
    LET V == Matching(origin.video_raw, VIDEO_EXTS)
        A == Matching(origin.audio_raw, AUDIO_EXTS)
    IN  /\ v \in Ids(V)
        /\ a \in Ids(A)
        /\ \E k \in 1..Cardinality(V) :
              KthOldest(FileOfId(V, v), k, V) /\ KthOldest(FileOfId(A, a), k, A)

\* positions of the trace where a merge command exited zero
MergedAt == {p \in DOMAIN trace : trace[p].op = "merge_exit" /\ trace[p].rc = 0}

\* C16: pairing is stable across retries. With nothing added to the inboxes,
\* every merge of every run, whatever step ended the runs before it, is of a
\* video with the audio of the same rank in the original ordering.
C16_PairingStableAcrossRetries ==
    \A p \in MergedAt : SameRank(trace[p].v, trace[p].a)

====
